---- MODULE Spec2Model ----
(***************************************************************************)
(* State-machine model of the CFDRenderer simulation core                  *)
(* (src/CFD/Simulator.cpp): the named force/torque registries, the         *)
(* per-frame loop of Simulator::run, the capped box-contact resolution     *)
(* loop of Simulator::handle_collisions, the integrator and the teardown.  *)
(*                                                                         *)
(* Numbers are fixed-point: a float f of the source is the integer         *)
(* f * Unit.  vec3 is a triple <<x, y, z>>.                                *)
(***************************************************************************)
EXTENDS Integers, Sequences, FiniteSets, TLC

\* ------------------------------------------------------------------ bounds
MaxFrames == 3        \* frames of Simulator::run explored
MaxKeyEvents == 1     \* key events delivered over one execution
MaxIdle == 2          \* the count of contact-free passes saturates here
MaxCalls == 3         \* registry calls explored by the registry harness
MaxSteps == 3         \* integration steps explored by the integrator harness
MaxKeys == 3          \* key events explored by the key harness

\* ------------------------------------------------------- program constants
Unit == 100           \* fixed-point unit of the float literals
SolverCap == 30       \* if (solver_iteration_counter == 30) break;
base_h_ == 3          \* base_h_(.03f)
damping_ == 9         \* damping_(.09f)
FrameScale == 13333   \* 133.33f

\* ------------------------------------------------------------- vec3 algebra
Vec(x, y, z) == <<x, y, z>>
Zero3 == Vec(0, 0, 0)
VAdd(a, b) == Vec(a[1] + b[1], a[2] + b[2], a[3] + b[3])
VNeg(a) == Vec(0 - a[1], 0 - a[2], 0 - a[3])
\* truncating division, as the float-to-fixed-point rounding toward zero
Quot(a, b) == IF a >= 0 THEN a \div b ELSE 0 - ((0 - a) \div b)
\* s * a for a fixed-point scalar s
VScale(s, a) == Vec(Quot(s * a[1], Unit), Quot(s * a[2], Unit), Quot(s * a[3], Unit))

GRAVITY == Vec(0, -90, 0)

\* --------------------------------------------------------- named registries
\* A registry (g_forces_, g_torques_) is a set of entries [name, f].
Entry(name, f) == [name |-> name, f |-> f]

\* m.find(name): the entries an iterator for name can point at
MapFind(m, name) == {e \in m : e.name = name}

\* a registry that inserts without looking for the name first
MapAssign_Insert(m, name, f) == m \cup {Entry(name, f)}

\* m[name] = f
MapAssign(m, name, f) == {e \in m : e.name # name} \cup {Entry(name, f)}

\* erase(m.begin()) in place of erase(it)
MapErase_Begin(m, name) == m \ {CHOOSE e \in m : TRUE}

\* m.erase(it), it = m.find(name) # m.end()
MapErase(m, name) == m \ {CHOOSE e \in MapFind(m, name) : TRUE}

\* the accumulation loop `for (f : g_forces_) acc += f.second * k`
RECURSIVE Accumulate(_, _)
Accumulate(m, k) ==
  IF m = {} THEN Zero3
  ELSE LET e == CHOOSE x \in m : TRUE
       IN VAdd(VScale(k, e.f), Accumulate(m \ {e}, k))

NetOf(m) == Accumulate(m, Unit)

\* ------------------------------------------------------------------- state
VARIABLES
  pc,                       \* position of main(): init, run's loop, teardown
  frame,                    \* iterations of run's while loop begun
  keyEvents,                \* key events delivered so far: how many, the last
                            \* press-or-release of P and of T, the last event
  g_forces_, g_torques_,    \* the two named registries
  spheres_, boxes_,         \* std::vector<Sphere*>, std::vector<Box*>
  bodies_,                  \* index -> collision body handle
  world_,                   \* the reactphysics3d world: alive, its bodies
  impulse_solver_,          \* the contacts the solver holds
  solver_iteration_counter, \* local of handle_collisions
  integrate_init,           \* `static bool init` of Simulator::integrate
  cout, cerr,               \* lines written in this frame / since the start
  solves, idle,             \* per call of handle_collisions: solve() calls,
                            \* contact-free passes (saturating at MaxIdle)
  dtor_it,                  \* entries of bodies_ the destructor has yet to visit
  steps,                    \* steps of run's loop finished in this frame
  destroyed,                \* handle -> destroyCollisionBody calls on it
  calls                     \* the last two registry calls, oldest first

vars == <<pc, frame, keyEvents, g_forces_, g_torques_, spheres_, boxes_,
          bodies_, world_, impulse_solver_, solver_iteration_counter,
          integrate_init, cout, cerr, solves, idle, dtor_it, steps,
          destroyed, calls>>

registry == <<g_forces_, g_torques_, cerr, calls>>
scene == <<spheres_, boxes_, bodies_, world_, destroyed, dtor_it>>
solver == <<impulse_solver_, solver_iteration_counter, solves, idle>>
control == <<pc, frame, steps, integrate_init, cout>>

\* --------------------------------------------------------- registry calls
Last(s) == s[Len(s)]
NextSeq == IF calls = <<>> THEN 1 ELSE Last(calls).seq + 1

\* the record kept of one registry call: what was called, and the registry
\* it was called on
Call(op, name, f, m) ==
  [seq |-> NextSeq, op |-> op, name |-> name, f |-> f, before |-> m,
   present |-> MapFind(m, name) # {}]

Remember(c) == IF Len(calls) < 2 THEN Append(calls, c) ELSE <<calls[2], c>>

NoForce(name) == <<"No force named ", name>>
NoTorque(name) == <<"No torque named ", name>>

add_global_force(name, f) ==
  /\ g_forces_' = MapAssign(g_forces_, name, f)
  /\ calls' = Remember(Call("add_global_force", name, f, g_forces_))
  /\ UNCHANGED <<g_torques_, cerr>>

add_global_torque(name, f) ==
  /\ g_torques_' = MapAssign(g_torques_, name, f)
  /\ calls' = Remember(Call("add_global_torque", name, f, g_torques_))
  /\ UNCHANGED <<g_forces_, cerr>>

\* remove_global_force without its diagnostic
remove_global_force_Silent(name) ==
  /\ IF MapFind(g_forces_, name) = {}
     THEN g_forces_' = g_forces_
     ELSE g_forces_' = MapErase(g_forces_, name)
  /\ cerr' = cerr
  /\ calls' = Remember(Call("remove_global_force", name, Zero3, g_forces_))
  /\ UNCHANGED g_torques_

remove_global_force(name) ==
  /\ IF MapFind(g_forces_, name) = {}
     THEN cerr' = Append(cerr, NoForce(name)) /\ g_forces_' = g_forces_
     ELSE g_forces_' = MapErase(g_forces_, name) /\ cerr' = cerr
  /\ calls' = Remember(Call("remove_global_force", name, Zero3, g_forces_))
  /\ UNCHANGED g_torques_

remove_global_torque(name) ==
  /\ IF MapFind(g_torques_, name) = {}
     THEN cerr' = Append(cerr, NoTorque(name)) /\ g_torques_' = g_torques_
     ELSE g_torques_' = MapErase(g_torques_, name) /\ cerr' = cerr
  /\ calls' = Remember(Call("remove_global_torque", name, Zero3, g_torques_))
  /\ UNCHANGED g_forces_

\* ------------------------------------------------------------ construction
\* Simulator::Simulator: empty registries and vectors, a fresh world.
Init ==
  /\ pc = "init"
  /\ frame = 0
  /\ keyEvents = [n |-> 0, P |-> "none", T |-> "none", last |-> "none"]
  /\ g_forces_ = {}
  /\ g_torques_ = {}
  /\ spheres_ = <<>>
  /\ boxes_ = <<>>
  /\ bodies_ = {}
  /\ world_ = [alive |-> TRUE, bodies |-> <<>>]
  /\ impulse_solver_ = [contacts |-> {}]
  /\ solver_iteration_counter = 0
  /\ integrate_init = TRUE
  /\ cout = <<>>
  /\ cerr = <<>>
  /\ solves = 0
  /\ idle = 0
  /\ dtor_it = {}
  /\ steps = <<>>
  /\ destroyed = <<>>
  /\ calls = <<>>

\* ------------------------------------------------- the registry as an API
\* A client of the four public registry methods, calling them with any name
\* and vector on a freshly constructed Simulator.
ForceNames == {"P-force", "gravity", "x"}
TorqueNames == {"torque", "x"}
Vectors == {Vec(0, -90, 0), Vec(50, 50, -50)}

CallsLeft == NextSeq <= MaxCalls

ClientAddForce ==
  /\ CallsLeft
  /\ \E name \in ForceNames, f \in Vectors : add_global_force(name, f)
  /\ UNCHANGED <<keyEvents, scene, solver, control>>

ClientRemoveForce ==
  /\ CallsLeft
  /\ \E name \in ForceNames : remove_global_force(name)
  /\ UNCHANGED <<keyEvents, scene, solver, control>>

ClientAddTorque ==
  /\ CallsLeft
  /\ \E name \in TorqueNames, f \in Vectors : add_global_torque(name, f)
  /\ UNCHANGED <<keyEvents, scene, solver, control>>

ClientRemoveTorque ==
  /\ CallsLeft
  /\ \E name \in TorqueNames : remove_global_torque(name)
  /\ UNCHANGED <<keyEvents, scene, solver, control>>

RegistryNext ==
  \/ ClientAddForce
  \/ ClientRemoveForce
  \/ ClientAddTorque
  \/ ClientRemoveTorque

SpecRegistry == Init /\ [][RegistryNext]_vars

\* ------------------------------------------------------ fixed-point helpers
Mul(a, b) == Quot(a * b, Unit)
Div(a, b) == Quot(a * Unit, b)
VDiv(a, s) == Vec(Div(a[1], s), Div(a[2], s), Div(a[3], s))

\* floor of the square root, by bisection: lo * lo <= n < hi * hi (the test
\* mid * mid <= n is made by division, to stay within TLC's integers)
RECURSIVE SqrtIn(_, _, _)
SqrtIn(n, lo, hi) ==
  IF hi - lo <= 1 THEN lo
  ELSE LET mid == (lo + hi) \div 2
       IN IF mid <= n \div mid THEN SqrtIn(n, mid, hi) ELSE SqrtIn(n, lo, mid)

Sqrt(n) == SqrtIn(n, 0, n + 1)

\* glm::quat, as <<w, x, y, z>>
Quat(w, v) == <<w, v[1], v[2], v[3]>>
QIdentity == Quat(Unit, Zero3)
QAdd(p, q) == <<p[1] + q[1], p[2] + q[2], p[3] + q[3], p[4] + q[4]>>
QScale(s, q) == <<Mul(s, q[1]), Mul(s, q[2]), Mul(s, q[3]), Mul(s, q[4])>>
\* glm's operator*(quat, quat): the Hamilton product
QMul(p, q) ==
  << Mul(p[1], q[1]) - Mul(p[2], q[2]) - Mul(p[3], q[3]) - Mul(p[4], q[4]),
     Mul(p[1], q[2]) + Mul(p[2], q[1]) + Mul(p[3], q[4]) - Mul(p[4], q[3]),
     Mul(p[1], q[3]) + Mul(p[3], q[1]) + Mul(p[4], q[2]) - Mul(p[2], q[4]),
     Mul(p[1], q[4]) + Mul(p[4], q[1]) + Mul(p[2], q[3]) - Mul(p[3], q[2]) >>
QDot(q) == q[1] * q[1] + q[2] * q[2] + q[3] * q[3] + q[4] * q[4]
\* an integrator that leaves the orientation as the update made it
normalize_Skip(q) == q

\* glm::normalize(quat): the identity for a quaternion of length 0
normalize(q) ==
  LET len == Sqrt(QDot(q))
  IN IF len <= 0 THEN QIdentity
     ELSE <<Div(q[1], len), Div(q[2], len), Div(q[3], len), Div(q[4], len)>>

\* ------------------------------------------------------------- the bodies
\* Box.h and Sphere.h are not among the sources; the constructors follow
\* the data model of the specification: a boundary box has inverse mass 0,
\* no inverse inertia and is at rest; orientation starts as the identity.
\* The inverse inertia tensor of a box is taken isotropic (a cube: every
\* mobile box of init is one), so R * IBodyInv * transpose(R) = IBodyInv.
NewBox(center, dims, immovable) ==
  [center |-> center, dims |-> dims, orientation |-> QIdentity,
   vel |-> Zero3, P |-> Zero3, L |-> Zero3, angular_vel |-> Zero3,
   inv_mass |-> IF immovable THEN 0 ELSE Unit,
   IBodyInv |-> IF immovable THEN 0 ELSE Unit,
   IInv |-> IF immovable THEN 0 ELSE Unit,
   color |-> Zero3]

\* Box::set_initial_vel
SetInitialVel(box, v) ==
  [box EXCEPT !.vel = v, !.P = IF box.inv_mass > 0 THEN VDiv(v, box.inv_mass) ELSE Zero3]

NewSphere(pos) == [pos |-> pos, vel |-> Zero3, mass |-> Unit, colliders_ |-> {}]

\* ------------------------------------------------------------- integration
\* for (f : g_forces_) acc += f.second / sphere->mass;
RECURSIVE AccumulateOver(_, _)
AccumulateOver(m, mass) ==
  IF m = {} THEN Zero3
  ELSE LET e == CHOOSE x \in m : TRUE
       IN VAdd(VDiv(e.f, mass), AccumulateOver(m \ {e}, mass))

\* one iteration of the loop of Simulator::integrate_spheres (the debug
\* printing of the lowest sphere, which writes only to std::cout and to
\* function-local statics, is left out)
IntegrateSphere(sphere, h) ==
  LET damping_force == VScale(0 - damping_, sphere.vel)
      acc == VAdd(AccumulateOver(g_forces_, sphere.mass),
                  VDiv(damping_force, sphere.mass))
      vel == VAdd(sphere.vel, VScale(h, acc))
      pos == VAdd(sphere.pos, VScale(h, vel))
  IN [sphere EXCEPT !.vel = vel, !.pos = pos, !.colliders_ = {}]

\* integrate_boxes deriving the velocity from the momentum without the
\* inverse mass
IntegrateBox_NoInvMass(box, h) ==
  LET torque == Accumulate(g_torques_, box.inv_mass)
      damping_force == VScale(0 - damping_, box.vel)
      acc == VAdd(Accumulate(g_forces_, box.inv_mass),
                  VScale(box.inv_mass, damping_force))
      angular_damping == Div(Unit, Unit + damping_)
      center == VAdd(box.center, VScale(h, box.vel))
      P_dot == IF box.inv_mass > 0 THEN VDiv(acc, box.inv_mass) ELSE Zero3
      P == VAdd(box.P, VScale(h, P_dot))
      vel == P
      IInv == box.IBodyInv
      L_dot == torque
      L == VAdd(box.L, VScale(angular_damping, VScale(h, L_dot)))
      angular_vel == VScale(IInv, L)
      spin == QScale(h, QMul(QScale(Unit \div 2, Quat(0, angular_vel)),
                             box.orientation))
      orientation == normalize(QAdd(box.orientation, spin))
  IN [box EXCEPT !.center = center, !.P = P, !.vel = vel, !.IInv = IInv,
                 !.L = L, !.angular_vel = angular_vel,
                 !.orientation = orientation]

\* one iteration of the first loop of Simulator::integrate_boxes
IntegrateBox(box, h) ==
  LET torque == Accumulate(g_torques_, box.inv_mass)
      damping_force == VScale(0 - damping_, box.vel)
      acc == VAdd(Accumulate(g_forces_, box.inv_mass),
                  VScale(box.inv_mass, damping_force))
      angular_damping == Div(Unit, Unit + damping_)
      center == VAdd(box.center, VScale(h, box.vel))
      P_dot == IF box.inv_mass > 0 THEN VDiv(acc, box.inv_mass) ELSE Zero3
      P == VAdd(box.P, VScale(h, P_dot))
      vel == VScale(box.inv_mass, P)
      IInv == box.IBodyInv
      L_dot == torque
      L == VAdd(box.L, VScale(angular_damping, VScale(h, L_dot)))
      angular_vel == VScale(IInv, L)
      spin == QScale(h, QMul(QScale(Unit \div 2, Quat(0, angular_vel)),
                             box.orientation))
      orientation == normalize(QAdd(box.orientation, spin))
  IN [box EXCEPT !.center = center, !.P = P, !.vel = vel, !.IInv = IInv,
                 !.L = L, !.angular_vel = angular_vel,
                 !.orientation = orientation]

\* reactphysics3d::Transform(pos, orientation) of a box
TransformOf(box) == [pos |-> box.center, orientation |-> box.orientation]

\* integrate_boxes without its second loop: the world keeps the transforms
\* it was given last
SyncWorld_Skip(w, bxs) == w

\* the second loop of integrate_boxes: body->setTransform for every entry
\* of bodies_, from the box its user data points at
SyncWorld(w, bxs) ==
  [w EXCEPT !.bodies =
     [h \in DOMAIN w.bodies |->
        IF \E e \in bodies_ : e.body = h
        THEN [w.bodies[h] EXCEPT !.transform = TransformOf(bxs[w.bodies[h].userData])]
        ELSE w.bodies[h]]]

\* float h = base_h_ * 133.33f * delta;
StepSize(delta) == Mul(Mul(base_h_, FrameScale), delta)

\* ------------------------------------------------------------------- init
\* The random draws of init (get_rand) and the dimensions the sphere
\* collision solver reports are inputs; one sphere and one mobile box stand
\* for the spheres_n_ spheres and the 50 boxes of the source.
WorldDims == Vec(400, 400, 400)
WorldCenter == Zero3
SphereStarts == {[pos |-> Vec(50, 100, -50), vel |-> Vec(10, -20, 20)]}
BoxStarts == {[center |-> Vec(0, -100, 50), vel |-> Vec(25, -50, 75)]}

\* floor, ceiling, back, front, right, left
Boundaries ==
  LET d == WorldDims
      c == WorldCenter
  IN << NewBox(VAdd(c, Vec(0, 0 - d[2], 0)), d, TRUE),
        NewBox(VAdd(c, Vec(0, d[2], 0)), d, TRUE),
        NewBox(VAdd(c, Vec(0, 0, 0 - d[3])), d, TRUE),
        NewBox(VAdd(c, Vec(0, 0, d[3])), d, TRUE),
        NewBox(VAdd(c, Vec(d[1], 0, 0)), d, TRUE),
        NewBox(VAdd(c, Vec(0 - d[1], 0, 0)), d, TRUE) >>

BoxDims == Vec(40, 40, 40)

\* world_->createCollisionBody(transform); body->setUserData(box);
\* bodies_.emplace(i, body), for every box (indices from 1 here)
RegisterBodies(w, bxs) ==
  [w EXCEPT !.bodies =
     [h \in 1..Len(bxs) |-> [transform |-> TransformOf(bxs[h]), userData |-> h]]]

SimulatorInit ==
  /\ pc = "init"
  /\ add_global_force("gravity", GRAVITY)
  /\ \E s \in SphereStarts, b \in BoxStarts :
       /\ spheres_' = <<[NewSphere(s.pos) EXCEPT !.vel = s.vel]>>
       /\ boxes_' = <<SetInitialVel(NewBox(b.center, BoxDims, FALSE), b.vel)>>
                      \o Boundaries
  /\ world_' = RegisterBodies(world_, boxes_')
  /\ bodies_' = {[key |-> h, body |-> h] : h \in 1..Len(boxes_')}
  /\ destroyed' = [h \in 1..Len(boxes_') |-> 0]
  /\ pc' = "run_check"
  /\ UNCHANGED <<frame, keyEvents, solver, integrate_init, cout, steps, dtor_it>>

\* --------------------------------------------------------------- the loop
\* while (!engine_.loop_done()): the window may be closed at any check
LoopDone ==
  /\ pc = "run_check"
  /\ pc' = "dtor"
  /\ dtor_it' = bodies_
  /\ UNCHANGED <<frame, keyEvents, registry, spheres_, boxes_, bodies_, world_,
                 destroyed, solver, integrate_init, cout, steps>>

LoopContinue ==
  /\ pc = "run_check"
  /\ frame < MaxFrames
  /\ frame' = frame + 1
  /\ pc' = "draw"
  /\ UNCHANGED <<keyEvents, registry, scene, solver, integrate_init, cout, steps>>

\* run calling integrate right after draw
Draw_ThenIntegrate ==
  /\ pc = "draw"
  /\ pc' = "integrate"
  /\ steps' = Append(steps, "draw")
  /\ UNCHANGED <<frame, keyEvents, registry, scene, solver, integrate_init, cout>>

\* engine_.draw() returns
Draw ==
  /\ pc = "draw"
  /\ pc' = "handle_collisions"
  /\ steps' = Append(steps, "draw")
  /\ UNCHANGED <<frame, keyEvents, registry, scene, solver, integrate_init, cout>>

\* -------------------------------------------------------------- key events
\* The engine delivers key events to Simulator::key_callback from inside
\* engine_.draw() (loop_done() is const).  PForces and TTorques are the
\* vectors a press may draw with get_rand.
Keys == {"P", "T", "R", "E", "other"}
KeyActions == {"PRESS", "RELEASE", "REPEAT", "other"}
PForces == {Vec(-50, 50, 25)}
TTorques == {Vec(-5, 50, 10)}
Nudge == 30

\* a callback that handles presses of P and T only
key_callback_PressOnly(key, action) ==
  CASE key = "P" /\ action = "PRESS" ->
         /\ \E force \in PForces : add_global_force("P-force", force)
         /\ UNCHANGED boxes_
    [] key = "T" /\ action = "PRESS" ->
         /\ \E torque \in TTorques : add_global_torque("torque", torque)
         /\ UNCHANGED boxes_
    [] OTHER -> UNCHANGED <<registry, boxes_>>

key_callback(key, action) ==
  CASE key = "P" /\ action = "PRESS" ->
         /\ \E force \in PForces : add_global_force("P-force", force)
         /\ UNCHANGED boxes_
    [] key = "P" /\ action = "RELEASE" ->
         /\ remove_global_force("P-force")
         /\ UNCHANGED boxes_
    [] key = "T" /\ action = "PRESS" ->
         /\ \E torque \in TTorques : add_global_torque("torque", torque)
         /\ UNCHANGED boxes_
    [] key = "T" /\ action = "RELEASE" ->
         /\ remove_global_torque("torque")
         /\ UNCHANGED boxes_
    [] key = "R" /\ action = "PRESS" ->
         /\ boxes_' = [boxes_ EXCEPT ![1].P[3] = @ + Nudge]
         /\ UNCHANGED registry
    [] key = "E" /\ action = "PRESS" ->
         /\ boxes_' = [boxes_ EXCEPT ![1].P[3] = @ - Nudge]
         /\ UNCHANGED registry
    [] OTHER -> UNCHANGED <<registry, boxes_>>

\* what is kept of a delivered event: for P and T the press or release
\* delivered last, and whether the last event was one of these four (then
\* its key) or not ("neutral")
LastOf(k, key, action) ==
  IF key = k /\ action \in {"PRESS", "RELEASE"} THEN action ELSE keyEvents[k]
Delivered(key, action) ==
  [n |-> keyEvents.n + 1,
   P |-> LastOf("P", key, action),
   T |-> LastOf("T", key, action),
   last |-> IF key \in {"P", "T"} /\ action \in {"PRESS", "RELEASE"}
            THEN key ELSE "neutral"]
Deliver ==
  \E key \in Keys, action \in KeyActions :
    /\ key_callback(key, action)
    /\ keyEvents' = Delivered(key, action)

KeyEvent ==
  /\ pc = "draw"
  /\ keyEvents.n < MaxKeyEvents
  /\ Deliver
  /\ UNCHANGED <<spheres_, bodies_, world_, destroyed, dtor_it, solver, control>>

\* ------------------------------------------------------- handle_collisions
\* ImpulseSolver is not among the sources.  What the collision world
\* reports to it (testCollision) and what had_collisions() answers at the
\* while condition are inputs: a manifold is a set of pairs of box indices
\* in contact.
Floor == 2
Manifolds == {{}, {<<1, Floor>>}}

\* ImpulseSolver::solve, from the specification: a velocity-level
\* correction of the boxes in contact.  The first box of a contact bounces
\* (its momenta are reversed) and the impulse that reverses them acts with
\* the opposite sign on the second; velocities follow from the momenta
\* through the inverse mass and the inverse inertia.
Derive(box) ==
  [box EXCEPT !.vel = VScale(box.inv_mass, box.P),
              !.angular_vel = VScale(box.IInv, box.L)]
ApplyImpulse(box, J, K) ==
  Derive([box EXCEPT !.P = VAdd(box.P, J), !.L = VAdd(box.L, K)])
ResolveContact(bxs, c) ==
  LET J == VAdd(VNeg(bxs[c[1]].P), VNeg(bxs[c[1]].P))
      K == VAdd(VNeg(bxs[c[1]].L), VNeg(bxs[c[1]].L))
  IN [bxs EXCEPT ![c[1]] = ApplyImpulse(bxs[c[1]], J, K),
                 ![c[2]] = ApplyImpulse(bxs[c[2]], VNeg(J), VNeg(K))]
RECURSIVE Solve(_, _)
Solve(bxs, manifold) ==
  IF manifold = {} THEN bxs
  ELSE LET c == CHOOSE x \in manifold : TRUE
       IN Solve(ResolveContact(bxs, c), manifold \ {c})

ContactColor == Vec(100, 20, 11)
SolvedAfter(n) == <<"Solved after ", n, " iterations">>

\* col_solver_->handle_collisions(spheres_) (a single sphere has no partner)
\* and the colour reset, up to `int solver_iteration_counter = 0;`
HandleCollisionsBegin ==
  /\ pc = "handle_collisions"
  /\ boxes_' = [i \in DOMAIN boxes_ |-> [boxes_[i] EXCEPT !.color = ContactColor]]
  /\ solver_iteration_counter' = 0
  /\ solves' = 0
  /\ idle' = 0
  /\ steps' = Append(steps, "col_solver")
  /\ pc' = "do"
  /\ UNCHANGED <<frame, keyEvents, registry, spheres_, bodies_, world_, destroyed,
                 dtor_it, impulse_solver_, integrate_init, cout>>

\* the cap tested with > in place of ==
AtCap_Late == solver_iteration_counter > SolverCap

\* if (solver_iteration_counter == 30)
AtCap == solver_iteration_counter = SolverCap

\* impulse_solver_.has_contacts()
has_contacts(sv) == sv.contacts # {}

Log(s, step) == IF \E i \in DOMAIN s : s[i] = step THEN s ELSE Append(s, step)

Saturate(n) == IF n < MaxIdle THEN n + 1 ELSE MaxIdle

\* the break of the do-while
CapBreak ==
  /\ pc = "do"
  /\ AtCap
  /\ pc' = "report"
  /\ steps' = Append(steps, "break")
  /\ UNCHANGED <<frame, keyEvents, registry, scene, solver, integrate_init, cout>>

\* one pass of the do-while: clear, testCollision, solve if there are
\* contacts, and the while condition on what had_collisions() answers
ResolutionPass ==
  /\ pc = "do"
  /\ ~AtCap
  /\ \E manifold \in Manifolds, had_collisions \in BOOLEAN :
       /\ impulse_solver_' = [contacts |-> manifold]
       /\ IF has_contacts(impulse_solver_')
          THEN /\ boxes_' = Solve(boxes_, manifold)
               /\ solver_iteration_counter' = solver_iteration_counter + 1
               /\ solves' = solves + 1
               /\ idle' = idle
               /\ steps' = Log(Log(steps, "testCollision"), "solve")
          ELSE /\ idle' = Saturate(idle)
               /\ steps' = Log(steps, "testCollision")
               /\ UNCHANGED <<boxes_, solver_iteration_counter, solves>>
       /\ pc' = IF had_collisions THEN "do" ELSE "report"
  /\ UNCHANGED <<frame, keyEvents, registry, spheres_, bodies_, world_, destroyed,
                 dtor_it, integrate_init, cout>>

\* the report left out when the cap was hit
HandleCollisionsReturn_Quiet ==
  /\ pc = "report"
  /\ cout' = IF solver_iteration_counter > 0 /\ solver_iteration_counter < SolverCap
             THEN Append(cout, SolvedAfter(solver_iteration_counter))
             ELSE cout
  /\ solver_iteration_counter' = 0
  /\ solves' = 0
  /\ idle' = 0
  /\ pc' = "integrate"
  /\ impulse_solver_' = [contacts |-> {}]
  /\ UNCHANGED <<frame, keyEvents, registry, scene, integrate_init, steps>>

\* if (solver_iteration_counter > 0) std::cout << ...; and the return, where
\* the local counter ends (the contacts the solver holds are dropped with
\* it: nothing reads them before the clear() of the next call)
HandleCollisionsReturn ==
  /\ pc = "report"
  /\ cout' = IF solver_iteration_counter > 0
             THEN Append(cout, SolvedAfter(solver_iteration_counter))
             ELSE cout
  /\ solver_iteration_counter' = 0
  /\ solves' = 0
  /\ idle' = 0
  /\ pc' = "integrate"
  /\ impulse_solver_' = [contacts |-> {}]
  /\ UNCHANGED <<frame, keyEvents, registry, scene, integrate_init, steps>>

\* ---------------------------------------------------------------- integrate
\* seconds (in units) glfwGetTime() advanced since the previous call
Elapsed == {25}

Integrate ==
  /\ pc = "integrate"
  /\ \E elapsed \in Elapsed :
       LET delta == IF integrate_init THEN 0 ELSE elapsed
           h == StepSize(delta)
       IN /\ spheres_' = [i \in DOMAIN spheres_ |-> IntegrateSphere(spheres_[i], h)]
          /\ boxes_' = [i \in DOMAIN boxes_ |-> IntegrateBox(boxes_[i], h)]
  /\ world_' = SyncWorld(world_, boxes_')
  /\ integrate_init' = FALSE
  /\ steps' = Append(steps, "integrate")
  /\ pc' = "print_fps"
  /\ UNCHANGED <<frame, keyEvents, registry, bodies_, destroyed, dtor_it, solver, cout>>

\* print_fps(), which ends the frame: steps and cout are those of one frame
PrintFps ==
  /\ pc = "print_fps"
  /\ steps' = <<>>
  /\ cout' = <<>>
  /\ pc' = "run_check"
  /\ UNCHANGED <<frame, keyEvents, registry, scene, solver, integrate_init>>

\* ---------------------------------------------------------------- teardown
\* world_->destroyCollisionBody(body), for the next entry of bodies_ (a map
\* is walked in the order of its keys; each entry is visited once)
DestroyBody ==
  /\ pc = "dtor"
  /\ \E e \in dtor_it :
       /\ \A o \in dtor_it : e.key <= o.key
       /\ world_' = [world_ EXCEPT !.bodies =
                       [h \in DOMAIN world_.bodies \ {e.body} |-> world_.bodies[h]]]
       /\ destroyed' = [destroyed EXCEPT ![e.body] = @ + 1]
       /\ dtor_it' = dtor_it \ {e}
  /\ UNCHANGED <<frame, keyEvents, registry, spheres_, boxes_, bodies_, solver,
                 control>>

\* the world destroyed without waiting for the loop over bodies_
DestroyWorld_First ==
  /\ pc = "dtor"
  /\ world_' = [world_ EXCEPT !.alive = FALSE]
  /\ pc' = "exit"
  /\ UNCHANGED <<frame, keyEvents, registry, spheres_, boxes_, bodies_, destroyed,
                 dtor_it, solver, integrate_init, cout, steps>>

\* physics_common_.destroyPhysicsWorld(world_), after the loop
DestroyWorld ==
  /\ pc = "dtor"
  /\ dtor_it = {}
  /\ world_' = [world_ EXCEPT !.alive = FALSE]
  /\ pc' = "exit"
  /\ UNCHANGED <<frame, keyEvents, registry, spheres_, boxes_, bodies_, destroyed,
                 dtor_it, solver, integrate_init, cout, steps>>

Next ==
  \/ SimulatorInit
  \/ LoopDone
  \/ LoopContinue
  \/ KeyEvent
  \/ Draw
  \/ HandleCollisionsBegin
  \/ CapBreak
  \/ ResolutionPass
  \/ HandleCollisionsReturn
  \/ Integrate
  \/ PrintFps
  \/ DestroyBody
  \/ DestroyWorld

Spec == Init /\ [][Next]_vars

\* ---------------------------------------------------- integrator harness
\* integrate_boxes(h) applied to the scene of init, for step sizes from 0
\* to a frame of one second and for angular momenta of any size: the
\* angular momentum of a box is written by the impulse solver, which is not
\* among the sources, so any value may stand in L when a step begins.
StepSizes == {0, 100, 400}
Spins == {Vec(0, 0, 30), Vec(300, -700, 500), Vec(-2000, 0, 100)}

ClientSpin ==
  /\ pc = "run_check"
  /\ \E K \in Spins :
       /\ boxes_[1].L # K
       /\ boxes_' = [boxes_ EXCEPT ![1] = ApplyImpulse(@, Zero3, VAdd(K, VNeg(@.L)))]
  /\ UNCHANGED <<pc, frame, keyEvents, registry, spheres_, bodies_, world_,
                 destroyed, dtor_it, solver, integrate_init, cout, steps>>

ClientStep ==
  /\ pc = "run_check"
  /\ frame < MaxSteps
  /\ frame' = frame + 1
  /\ \E h \in StepSizes :
       boxes_' = [i \in DOMAIN boxes_ |-> IntegrateBox(boxes_[i], h)]
  /\ world_' = SyncWorld(world_, boxes_')
  /\ UNCHANGED <<pc, keyEvents, registry, spheres_, bodies_, destroyed, dtor_it,
                 solver, integrate_init, cout, steps>>

OrientationNext ==
  \/ SimulatorInit
  \/ ClientSpin
  \/ ClientStep

SpecOrientation == Init /\ [][OrientationNext]_vars

\* ------------------------------------------------------------ key harness
\* key events delivered to Simulator::key_callback once init has run, in
\* any number up to MaxKeys and in any order
ClientKey ==
  /\ pc = "run_check"
  /\ keyEvents.n < MaxKeys
  /\ Deliver
  /\ UNCHANGED <<spheres_, bodies_, world_, destroyed, dtor_it, solver, control>>

KeysNext ==
  \/ SimulatorInit
  \/ ClientKey

SpecKeys == Init /\ [][KeysNext]_vars

\* --------------------------------------------------------------- properties
IsPrefix(s, t) == Len(s) <= Len(t) /\ \A i \in 1..Len(s) : s[i] = t[i]

\* testCollision calls of the running handle_collisions (exact while the
\* count of contact-free passes is below MaxIdle)
Queries == solves + idle

\* C1: handle_collisions terminates: its loop runs until a pass finds no
\* contacts or the cap is reached, so whatever the collision world and the
\* solver report it issues at most cap + 1 collision-world queries.
C1_QueriesBounded == pc \in {"do", "report"} => Queries <= SolverCap + 1

\* C2: within one call of handle_collisions solve() is applied at most 30
\* times: the counter starts at 0, grows by exactly 1 with each applied pass
\* and never exceeds 30.
C2_CounterInRange ==
  /\ solver_iteration_counter \in 0..SolverCap
  /\ solves = solver_iteration_counter
C2_CounterStep ==
  /\ (pc = "handle_collisions" /\ pc' = "do") => solver_iteration_counter' = 0
  /\ (pc = "do" /\ pc' \in {"do", "report"}) =>
       \/ solver_iteration_counter' = solver_iteration_counter /\ solves' = solves
       \/ /\ solver_iteration_counter' = solver_iteration_counter + 1
          /\ solves' = solves + 1
C2_AtMostCapSolves == [](C2_CounterInRange) /\ [][C2_CounterStep]_vars
C2_Witness == pc = "do" /\ solver_iteration_counter = SolverCap

\* C3: in each pass, after the clear and the query: with contacts exactly one
\* solve is applied and the counter incremented; without contacts no solve is
\* applied and the loop exits without another query in that frame.
C3_PassStep ==
  (pc = "do" /\ ~AtCap) =>
    IF has_contacts(impulse_solver_')
    THEN /\ solves' = solves + 1
         /\ solver_iteration_counter' = solver_iteration_counter + 1
    ELSE /\ solves' = solves
         /\ solver_iteration_counter' = solver_iteration_counter
         /\ pc' = "report"
C3_PassContract == [][C3_PassStep]_vars

\* C4: every frame of run goes render, collision detection, contact
\* resolution, integration, timing report, in this order; integration starts
\* only when handle_collisions has returned, and a frame starts only when
\* the frame before it has finished.
FrameOrders ==
  { <<"draw", "col_solver", "testCollision", "integrate">>,
    <<"draw", "col_solver", "testCollision", "solve", "integrate">>,
    <<"draw", "col_solver", "testCollision", "solve", "break", "integrate">> }
StepsInOrder ==
  /\ \E order \in FrameOrders : IsPrefix(steps, order)
  /\ pc = "integrate" =>
       steps # <<>> /\ Last(steps) \in {"testCollision", "solve", "break"}
  /\ pc = "print_fps" => steps # <<>> /\ Last(steps) = "integrate"
  /\ pc = "run_check" => steps = <<>>
FrameBoundary ==
  steps' # steps =>
    \/ IsPrefix(steps, steps') /\ pc # "print_fps"
    \/ /\ steps' = <<>>
       /\ pc = "print_fps" /\ pc' = "run_check"
       /\ Last(steps) = "integrate"
C4_FrameOrder == [](StepsInOrder) /\ [][FrameBoundary]_vars
C4_Witness ==
  /\ pc = "print_fps" /\ frame >= 2
  /\ steps = <<"draw", "col_solver", "testCollision", "solve", "integrate">>

IsForceCall(c) == c.op \in {"add_global_force", "remove_global_force"}
IsAdd(c) == c.op \in {"add_global_force", "add_global_torque"}
IsRemove(c) == c.op \in {"remove_global_force", "remove_global_torque"}
RegistryOf(c) == IF IsForceCall(c) THEN g_forces_ ELSE g_torques_
OthersBefore(c) == {e \in c.before : e.name # c.name}

\* the last two calls were add(x, v) and remove(x) on the same registry
AddThenRemove ==
  /\ Len(calls) = 2
  /\ IsAdd(calls[1]) /\ IsRemove(calls[2])
  /\ IsForceCall(calls[1]) = IsForceCall(calls[2])
  /\ calls[1].name = calls[2].name

\* C5 as stated: for every registry state and every name x, add(x, v)
\* followed by remove(x) leaves the net force (torque) as it was before the
\* add.
C5_AddRemoveRestoresNet ==
  AddThenRemove => NetOf(RegistryOf(calls[2])) = NetOf(calls[1].before)

\* C5 as amended: for every registry state and every name x that is not in
\* the registry, add(x, v) followed by remove(x) leaves the net force
\* (torque) as it was before the add.
C5_FreshAddRemoveRestoresNet ==
  (AddThenRemove /\ ~calls[1].present) =>
    NetOf(RegistryOf(calls[2])) = NetOf(calls[1].before)
C5_Witness ==
  /\ AddThenRemove /\ ~calls[1].present
  /\ calls[1].f # Zero3
  /\ NetOf(calls[1].before) # Zero3

\* the last two calls were add(g, v1) and add(g, v2) on the same registry
AddTwice ==
  /\ Len(calls) = 2
  /\ IsAdd(calls[1]) /\ calls[2].op = calls[1].op
  /\ calls[1].name = calls[2].name

\* C6: re-adding under an existing name replaces: after add(g, v1);
\* add(g, v2) the registry holds exactly one entry for g, of value v2, every
\* other entry is unchanged, and g contributes v2 to the accumulated sum.
C6_ReAddReplaces ==
  AddTwice =>
    LET m == RegistryOf(calls[2])
        g == calls[2].name
    IN /\ MapFind(m, g) = {Entry(g, calls[2].f)}
       /\ {e \in m : e.name # g} = OthersBefore(calls[1])
       /\ NetOf(m) = VAdd(NetOf(OthersBefore(calls[1])), calls[2].f)
C6_Witness ==
  AddTwice /\ calls[1].f # calls[2].f /\ OthersBefore(calls[1]) # {}

\* C7: removing a name that is not in its registry is a reported no-op: one
\* diagnostic line is written, both registries and all bodies are left as
\* they were, and the frame loop goes on from where the call was made.
Diagnostic(c) == IF IsForceCall(c) THEN NoForce(c.name) ELSE NoTorque(c.name)
C7_AbsentRemoveStep ==
  (calls' # calls /\ IsRemove(Last(calls')) /\ ~Last(calls').present) =>
    /\ cerr' = Append(cerr, Diagnostic(Last(calls')))
    /\ g_forces_' = g_forces_ /\ g_torques_' = g_torques_
    /\ spheres_' = spheres_ /\ boxes_' = boxes_ /\ world_' = world_
    /\ pc' = pc /\ frame' = frame
C7_AbsentRemoveReported == [][C7_AbsentRemoveStep]_vars
C7_Witness ==
  /\ calls # <<>> /\ IsRemove(Last(calls)) /\ ~Last(calls).present
  /\ Len(cerr) = 1
  /\ pc = "print_fps"

\* C8: on teardown every collision body registered during init is destroyed
\* exactly once, and all of them before the world: the world is never
\* destroyed while a registered body is alive.
C8_BodiesBeforeWorld ==
  /\ \A h \in DOMAIN destroyed :
       /\ destroyed[h] <= 1
       /\ (destroyed[h] = 0) = (h \in DOMAIN world_.bodies)
  /\ ~world_.alive =>
       /\ DOMAIN world_.bodies = {}
       /\ \A h \in DOMAIN destroyed : destroyed[h] = 1
C8_Witness ==
  /\ pc = "exit" /\ ~world_.alive
  /\ frame >= 1
  /\ DOMAIN destroyed = 1..Len(boxes_) /\ Len(boxes_) > Len(Boundaries)

C10_CapStep ==
  /\ (pc = "do" /\ AtCap) =>
       /\ pc' = "report"
       /\ boxes_' = boxes_
       /\ solver_iteration_counter' = solver_iteration_counter
  /\ (pc = "report" /\ solver_iteration_counter = SolverCap) =>
       /\ cout' = Append(cout, SolvedAfter(SolverCap))
       /\ pc' = "integrate"
       /\ boxes_' = boxes_
C10_Unconverged ==
  (pc \in {"integrate", "print_fps"} /\ \E i \in DOMAIN steps : steps[i] = "break") =>
    cout = <<SolvedAfter(SolverCap)>>
C10_CapReported == [](C10_Unconverged) /\ [][C10_CapStep]_vars
C10_Witness ==
  /\ pc = "print_fps"
  /\ steps = <<"draw", "col_solver", "testCollision", "solve", "break", "integrate">>
  /\ cout = <<SolvedAfter(SolverCap)>>

\* C11: whenever the collision world is queried (the head of the resolution
\* loop, from which testCollision is called), the transform it holds for
\* every registered body, the immovable boxes included, is the centre and
\* the orientation its box has now: in the first frame and in every later
\* one, whatever key events and resolution passes came since the last
\* integration.
C11_WorldInSync ==
  pc = "do" =>
    /\ DOMAIN world_.bodies = DOMAIN boxes_
    /\ \A h \in DOMAIN world_.bodies :
         LET box == boxes_[world_.bodies[h].userData]
         IN /\ world_.bodies[h].userData = h
            /\ world_.bodies[h].transform.pos = box.center
            /\ world_.bodies[h].transform.orientation = box.orientation
C11_Witness ==
  /\ pc = "do" /\ frame >= 3 /\ solves >= 1 /\ keyEvents.n >= 1
  /\ boxes_[1].center \notin {b.center : b \in BoxStarts}
  /\ boxes_[1].orientation # QIdentity
  /\ world_.bodies[1].transform.pos = boxes_[1].center

\* the length of a quaternion, and the distance from 1 that the fixed-point
\* grid allows a normalized one (the quotient of each of the four components
\* and the root are each rounded to the grid)
Norm(q) == Sqrt(QDot(q))
Tolerance == 3 * (Unit \div 100)

\* C12: every rigid box has an orientation of norm 1, within tolerance,
\* after every integration step, for all step counts, step sizes and angular
\* velocities: the last write of integrate_boxes to an orientation is the
\* re-normalization.
C12_UnitOrientation ==
  \A i \in DOMAIN boxes_ :
    /\ Norm(boxes_[i].orientation) >= Unit - Tolerance
    /\ Norm(boxes_[i].orientation) <= Unit + Tolerance
C12_Witness ==
  /\ frame >= 2
  /\ boxes_[1].angular_vel # Zero3
  /\ boxes_[1].orientation # QIdentity
  /\ boxes_[1].orientation[1] < 0

\* C13: after any sequence of key events the force registry holds "P-force"
\* exactly when the last press-or-release of P was a press, the torque
\* registry holds "torque" exactly when the last press-or-release of T was a
\* press; repeats, unknown actions and other keys change neither registry;
\* and the "gravity" entry of init is neither removed nor overwritten.
Holds(m, name) == MapFind(m, name) # {}
C13_RegistryFollowsKeys ==
  pc # "init" =>
    /\ Holds(g_forces_, "P-force") = (keyEvents.P = "PRESS")
    /\ Holds(g_torques_, "torque") = (keyEvents.T = "PRESS")
    /\ MapFind(g_forces_, "gravity") = {Entry("gravity", GRAVITY)}
    /\ {e.name : e \in g_forces_} \subseteq {"gravity", "P-force"}
    /\ {e.name : e \in g_torques_} \subseteq {"torque"}
C13_NeutralStep ==
  (keyEvents' # keyEvents /\ keyEvents'.last = "neutral") =>
    g_forces_' = g_forces_ /\ g_torques_' = g_torques_
C13_KeysDriveRegistry == [](C13_RegistryFollowsKeys) /\ [][C13_NeutralStep]_vars
C13_Witness ==
  /\ keyEvents.n = MaxKeys
  /\ keyEvents.P = "RELEASE" /\ ~Holds(g_forces_, "P-force")
  /\ keyEvents.T = "PRESS" /\ Holds(g_torques_, "torque")
  /\ keyEvents.last = "P"
====
